---- MODULE Spec2Model ----
(***************************************************************************)
(* Reconnect API (src/main.py): the contact store, the interaction         *)
(* recorder and the due-contact suggestion engine.                         *)
(*                                                                         *)
(* Time is counted in ticks; a day is TicksPerDay ticks.  A datetime is    *)
(* the number of ticks since an arbitrary epoch (it may be negative), a    *)
(* timedelta is a difference of two datetimes, and timedelta.days is the   *)
(* floor of the difference divided by the length of a day.                 *)
(*                                                                         *)
(* Only the fields a handler reads are kept in a stored document:          *)
(* fullName, relationship, phoneNumber, email, priority, updated_at,       *)
(* type, messagePreview and notes are written but never read by any        *)
(* handler and are left out.                                               *)
(***************************************************************************)
EXTENDS Integers, Sequences, FiniteSets, TLC

\* ------------------------------------------------------------------ bounds
TicksPerDay == 2
MaxClock == 2
MaxDrift == 1
MaxContacts == 2
MaxInteractions == 2
MaxProcs == 2

\* ------------------------------------------------------- program constants
DefaultFrequencyDays == 30
NeverContactedScore == 1000000000
DefaultCount == 3
DefaultCountDaily == 3
DefaultCountWeekly == 10

\* ------------------------------------------------------------ time values
\* Optional[datetime] | str, as a stored lastContactedAt can be.
None == [kind |-> "none", t |-> 0]
Dt(t) == [kind |-> "datetime", t |-> t]
IsoStr(t) == [kind |-> "isostr", t |-> t]
BadStr == [kind |-> "badstr", t |-> 0]

isinstance_str(v) == v.kind \in {"isostr", "badstr"}

\* datetime.fromisoformat inside try/except: the parsed datetime, or None
\* when the text is not ISO 8601.
fromisoformat(s) == IF s.kind = "isostr" THEN Dt(s.t) ELSE None

\* The "if isinstance(last, str): try ... except: last = None" block.
parse_last(last) == IF isinstance_str(last) THEN fromisoformat(last) ELSE last

\* timedelta.days of a difference of d ticks: floor(d / day).
timedelta_days(d) == d \div TicksPerDay

\* dict.get(key, default)
Get(d, key, default) == IF key \in DOMAIN d THEN d[key] ELSE default

\* ------------------------------------------------------------ due / score
days_since(dt, now) ==
    IF dt.kind = "none"
    THEN [known |-> FALSE, days |-> 0]
    ELSE [known |-> TRUE, days |-> timedelta_days(now - dt.t)]

is_due_strict(contact, now) ==
    LET freq == Get(contact, "frequencyDays", DefaultFrequencyDays)
        last == parse_last(Get(contact, "lastContactedAt", None))
    IN  IF last.kind = "none" THEN TRUE
        ELSE timedelta_days(now - last.t) > freq

is_due(contact, now) ==
    LET freq == Get(contact, "frequencyDays", DefaultFrequencyDays)
        last == parse_last(Get(contact, "lastContactedAt", None))
    IN  IF last.kind = "none" THEN TRUE
        ELSE timedelta_days(now - last.t) >= freq

overdue_score(c, now) ==
    LET last == parse_last(Get(c, "lastContactedAt", None))
        freq == Get(c, "frequencyDays", DefaultFrequencyDays)
    IN  IF last.kind = "none" THEN NeverContactedScore
        ELSE timedelta_days(now - last.t) - freq

\* ------------------------------------------------------------------- lists
Min(a, b) == IF a <= b THEN a ELSE b
Max(a, b) == IF a >= b THEN a ELSE b

\* seq[:k] of Python: the first k elements, or all but the last -k when k < 0.
slice_to_off_by_one(seq, k) ==
    LET stop == IF k < 0 THEN Max(Len(seq) + k, 0) ELSE Min(k + 1, Len(seq))
    IN  SubSeq(seq, 1, stop)

slice_to(seq, k) ==
    LET stop == IF k < 0 THEN Max(Len(seq) + k, 0) ELSE Min(k, Len(seq))
    IN  SubSeq(seq, 1, stop)

\* "due or fallback": an empty list is falsy.
due_only(due, fallback) == due

due_or_fallback(due, fallback) == IF due # <<>> THEN due ELSE fallback

\* list.sort(key=..., reverse=True) is stable: the elements come out by
\* descending key, and elements of equal key keep their original order.
\* The sort is over indices into the list; keys[i] is the key of element i.
RECURSIVE insert_desc(_, _, _)
insert_desc(sorted, i, keys) ==
    IF sorted = <<>> THEN <<i>>
    ELSE IF keys[Head(sorted)] >= keys[i]
         THEN <<Head(sorted)>> \o insert_desc(Tail(sorted), i, keys)
         ELSE <<i>> \o sorted

RECURSIVE insert_asc(_, _, _)
insert_asc(sorted, i, keys) ==
    IF sorted = <<>> THEN <<i>>
    ELSE IF keys[Head(sorted)] <= keys[i]
         THEN <<Head(sorted)>> \o insert_asc(Tail(sorted), i, keys)
         ELSE <<i>> \o sorted

RECURSIVE sort_prefix(_, _)
sort_prefix(keys, n) ==
    IF n = 0 THEN <<>> ELSE insert_desc(sort_prefix(keys, n - 1), n, keys)

RECURSIVE sort_prefix_asc(_, _)
sort_prefix_asc(keys, n) ==
    IF n = 0 THEN <<>> ELSE insert_asc(sort_prefix_asc(keys, n - 1), n, keys)

\* sorted(..., key=...) ascending and then reversed: equal keys come out in
\* reverse storage order.
sort_then_reversed(keys) ==
    LET asc == sort_prefix_asc(keys, Len(keys))
    IN  [j \in 1..Len(keys) |-> asc[Len(keys) + 1 - j]]

sort_reverse(keys) == sort_prefix(keys, Len(keys))

\* The successive values now_utc() returns to n calls made one after the
\* other between times lo and hi.
RECURSIVE ClockReads(_, _, _)
ClockReads(n, lo, hi) ==
    IF n = 0 THEN {<<>>}
    ELSE UNION {{<<t>> \o rest : rest \in ClockReads(n - 1, t, hi)} : t \in lo..hi}

LastRead(ts, before) == IF Len(ts) = 0 THEN before ELSE ts[Len(ts)]

\* ------------------------------------------------------------------- state
VARIABLES
    clock,          \* what now_utc() returns now
    contacts,       \* collection "contact", in storage (insertion) order
    nextId,         \* the next _id the store assigns to a contact
    interactions,   \* collection "contactinteraction", in storage order
    settings,       \* collection "settings": the "default" document, or NoDoc
    pc,             \* where each request worker stands in its handler
    local,          \* the handler's local variables (contact_id, payload)
    inbox,          \* the engine request accepted and not yet served
    resp            \* the response the last step sent, NoResp when none

vars == <<clock, contacts, nextId, interactions, settings, pc, local, inbox, resp>>

Procs == 1..MaxProcs

NoDoc == [exists |-> FALSE, mode |-> "", countDaily |-> 0, countWeekly |-> 0]
NoResp == [kind |-> "none"]
NoLocal == [contact_id |-> 0, createdAt |-> 0]
NoRequest == [kind |-> "none"]

\* ------------------------------------------------------------------ inputs
\* ContactIn: frequencyDays is a plain int, lastContactedAt an optional
\* datetime (pydantic has parsed it; it may lie in the future).
FreqInputs == {0 - 1000000001, 0, 1}
LastInputs == {None, Dt(0), Dt(1)}
ContactInputs == [frequencyDays : FreqInputs, lastContactedAt : LastInputs]

\* Query parameters of GET /api/suggestions, each given or left out.
NotGiven(v) == [given |-> FALSE, value |-> v]
Given(v) == [given |-> TRUE, value |-> v]
ModeArgs == {NotGiven("")} \cup {Given(m) : m \in {"daily", "weekly"}}
CountArgs == {NotGiven(0)} \cup {Given(n) : n \in (0 - 1)..2}

\* SettingsIn bodies of PUT /api/settings.
SettingsInputs == [mode : {"daily", "weekly"}, countDaily : {1}, countWeekly : {2}]

\* Dicts handed to is_due directly: any stored shape, a missing
\* frequencyDays and text timestamps included.
DueOffsets == {0 - 1, 0, 1, TicksPerDay - 1, TicksPerDay, TicksPerDay + 1,
               DefaultFrequencyDays * TicksPerDay - 1,
               DefaultFrequencyDays * TicksPerDay}
DueLasts(now) ==
    {None, BadStr} \cup {Dt(now - d) : d \in DueOffsets}
                   \cup {IsoStr(now - d) : d \in DueOffsets}
DueDicts(now) ==
    [frequencyDays : FreqInputs \cup {2}, lastContactedAt : DueLasts(now)]
        \cup [lastContactedAt : DueLasts(now)]

\* ----------------------------------------------------------------- storage
IndexOf(id) ==
    IF \E i \in 1..Len(contacts) : contacts[i].id = id
    THEN CHOOSE i \in 1..Len(contacts) : contacts[i].id = id
    ELSE 0

\* collection.find_one({"_id": id}) is not None
find_one(id) == IndexOf(id) # 0

\* collection.update_one({"_id": id}, {"$set": fields}): the collection after.
update_one(id, fields) ==
    [i \in 1..Len(contacts) |->
        IF contacts[i].id = id THEN fields @@ contacts[i] ELSE contacts[i]]

\* collection.delete_one({"_id": id}): the collection after.
delete_one(id) == SelectSeq(contacts, LAMBDA c : c.id # id)

\* collection.delete_many({"contactId": id}): the collection after.
delete_many(id) == SelectSeq(interactions, LAMBDA x : x.contactId # id)

\* database.create_document: insert the document, return its new _id.
create_document(coll, doc) == Append(coll, doc)

Init ==
    /\ clock = 0
    /\ contacts = <<>>
    /\ nextId = 1
    /\ interactions = <<>>
    /\ settings = NoDoc
    /\ pc = [p \in Procs |-> "idle"]
    /\ local = [p \in Procs |-> NoLocal]
    /\ inbox = NoRequest
    /\ resp = NoResp

\* ------------------------------------------------------------------- clock
Tick ==
    /\ clock < MaxClock
    /\ clock' = clock + 1
    /\ resp' = NoResp
    /\ UNCHANGED <<contacts, nextId, interactions, settings, pc, local, inbox>>

\* ---------------------------------------------------------------- contacts
\* POST /api/contacts
create_contact(data) ==
    /\ nextId <= MaxContacts
    /\ contacts' = create_document(contacts, [id |-> nextId] @@ data)
    /\ nextId' = nextId + 1
    /\ resp' = [kind |-> "contact", status |-> 200]
    /\ UNCHANGED <<clock, interactions, settings, pc, local, inbox>>

\* PUT /api/contacts/{contact_id}
update_contact(contact_id, data) ==
    /\ IF find_one(contact_id)
       THEN /\ contacts' = update_one(contact_id, data)
            /\ resp' = [kind |-> "contact", status |-> 200]
       ELSE /\ resp' = [kind |-> "error", status |-> 404]
            /\ UNCHANGED contacts
    /\ UNCHANGED <<clock, nextId, interactions, settings, pc, local, inbox>>

\* DELETE /api/contacts/{contact_id}: delete_one on the contact ...
delete_contact_one(p, contact_id) ==
    /\ pc[p] = "idle"
    /\ IF find_one(contact_id)
       THEN /\ contacts' = delete_one(contact_id)
            /\ pc' = [pc EXCEPT ![p] = "delete_many"]
            /\ local' = [local EXCEPT ![p] = [NoLocal EXCEPT !.contact_id = contact_id]]
            /\ resp' = NoResp
       ELSE /\ resp' = [kind |-> "error", status |-> 404]
            /\ UNCHANGED <<contacts, pc, local>>
    /\ UNCHANGED <<clock, nextId, interactions, settings, inbox>>

\* ... and then delete_many on its interactions.
delete_contact_many(p) ==
    /\ pc[p] = "delete_many"
    /\ interactions' = delete_many(local[p].contact_id)
    /\ pc' = [pc EXCEPT ![p] = "idle"]
    /\ local' = [local EXCEPT ![p] = NoLocal]
    /\ resp' = [kind |-> "deleted", status |-> 200]
    /\ UNCHANGED <<clock, contacts, nextId, settings, inbox>>

\* ------------------------------------------------------------ interactions
InFlightInserts == Cardinality({q \in Procs : pc[q] = "insert"})

\* POST /api/contacts/{contact_id}/interactions: the existence check ...
add_interaction_find(p, contact_id) ==
    /\ pc[p] = "idle"
    /\ Len(interactions) + InFlightInserts < MaxInteractions
    /\ IF find_one(contact_id)
       THEN /\ pc' = [pc EXCEPT ![p] = "insert"]
            /\ local' = [local EXCEPT ![p] = [NoLocal EXCEPT !.contact_id = contact_id]]
            /\ resp' = NoResp
       ELSE /\ resp' = [kind |-> "error", status |-> 404]
            /\ UNCHANGED <<pc, local>>
    /\ UNCHANGED <<clock, contacts, nextId, interactions, settings, inbox>>

\* ... the payload, stamped createdAt = now_utc(), and its insertion ...
add_interaction_insert(p) ==
    /\ pc[p] = "insert"
    /\ interactions' = create_document(interactions,
            [contactId |-> local[p].contact_id, createdAt |-> clock])
    /\ local' = [local EXCEPT ![p].createdAt = clock]
    /\ pc' = [pc EXCEPT ![p] = "update"]
    /\ resp' = NoResp
    /\ UNCHANGED <<clock, contacts, nextId, settings, inbox>>

\* ... and the update of the contact with lastContactedAt = now_utc(), read
\* again; the interaction document is the response.
add_interaction_update(p) ==
    /\ pc[p] = "update"
    /\ contacts' = update_one(local[p].contact_id, [lastContactedAt |-> Dt(clock)])
    /\ resp' = [kind |-> "interaction", status |-> 200,
                contactId |-> local[p].contact_id,
                createdAt |-> local[p].createdAt]
    /\ pc' = [pc EXCEPT ![p] = "idle"]
    /\ local' = [local EXCEPT ![p] = NoLocal]
    /\ UNCHANGED <<clock, nextId, interactions, settings, inbox>>

\* A request that dies between two storage calls (the store raises, the
\* worker is killed): nothing is rolled back.
request_fails(p) ==
    /\ pc[p] # "idle"
    /\ pc' = [pc EXCEPT ![p] = "idle"]
    /\ local' = [local EXCEPT ![p] = NoLocal]
    /\ resp' = [kind |-> "error", status |-> 500]
    /\ UNCHANGED <<clock, contacts, nextId, interactions, settings, inbox>>

\* ---------------------------------------------------------------- settings
DefaultSettings ==
    [exists |-> TRUE, mode |-> "daily",
     countDaily |-> DefaultCountDaily, countWeekly |-> DefaultCountWeekly]

\* GET /api/settings
get_settings ==
    /\ inbox.kind = "get_settings"
    /\ settings' = IF settings.exists THEN settings ELSE DefaultSettings
    /\ resp' = [kind |-> "settings", status |-> 200]
    /\ inbox' = NoRequest
    /\ UNCHANGED <<clock, contacts, nextId, interactions, pc, local>>

\* PUT /api/settings
update_settings ==
    /\ inbox.kind = "update_settings"
    /\ settings' = [exists |-> TRUE] @@ inbox.data
    /\ resp' = [kind |-> "settings", status |-> 200]
    /\ inbox' = NoRequest
    /\ UNCHANGED <<clock, contacts, nextId, interactions, pc, local>>

\* ------------------------------------------------------------- suggestions
Positions(n) == [j \in 1..n |-> j]

\* GET /api/suggestions.  Every call of overdue_score, is_due and days_since
\* reads the clock anew; the reads of one request span at most MaxDrift ticks.
\* The response also records what the handler computed on the way: the
\* snapshot (items), the sort keys (keys[i] for items[i]), the sorted order
\* (order[j] is the index in items of the j-th sorted element), the due
\* filter (dueFlags[j] for the j-th sorted element), the pool the result is
\* cut from (positions in the sorted list) and target.  A value computed
\* once by the handler is bound once, by \E over a singleton.
get_suggestions ==
    /\ inbox.kind = "suggestions"
    /\ LET modeArg == inbox.modeArg
           countArg == inbox.countArg
           mode == IF modeArg.given THEN modeArg.value ELSE "daily"
           count == IF countArg.given THEN countArg.value ELSE DefaultCount
           items == contacts
           n == Len(items)
           hi == Min(clock + MaxDrift, MaxClock)
       IN  \E ts1 \in ClockReads(n, clock, hi) :
           \E keys \in {[i \in 1..n |-> overdue_score(items[i], ts1[i])]} :
           \E order \in {sort_reverse(keys)} :
           \E sorted \in {[j \in 1..n |-> items[order[j]]]} :
           \E ts2 \in ClockReads(n, LastRead(ts1, clock), hi) :
           \E dueFlags \in {[j \in 1..n |-> is_due(sorted[j], ts2[j])]} :
           LET due == SelectSeq(Positions(n), LAMBDA j : dueFlags[j])
               fallback == Positions(n)
               target == IF mode = "daily" THEN count ELSE count
           IN  \E pool \in {due_or_fallback(due, fallback)} :
               \E resultPos \in {slice_to(pool, target)} :
               \E ts3 \in ClockReads(Len(resultPos), LastRead(ts2, LastRead(ts1, clock)), hi) :
                   /\ resp' = [kind |-> "suggestions", status |-> 200,
                               modeArg |-> modeArg, countArg |-> countArg,
                               mode |-> mode, count |-> count, target |-> target,
                               items |-> items, keys |-> keys, order |-> order,
                               dueFlags |-> dueFlags, pool |-> pool,
                               result |-> [k \in 1..Len(resultPos) |->
                                   [daysSince |-> days_since(
                                       parse_last(Get(sorted[resultPos[k]],
                                                      "lastContactedAt", None)),
                                       ts3[k])] @@ sorted[resultPos[k]]]]
                   /\ clock' = LastRead(ts3, LastRead(ts2, LastRead(ts1, clock)))
    /\ inbox' = NoRequest
    /\ UNCHANGED <<contacts, nextId, interactions, settings, pc, local>>

\* is_due on its own (a per-contact badge), on any dict.
check_due ==
    /\ inbox.kind = "is_due"
    /\ resp' = [kind |-> "is_due", contact |-> inbox.contact, now |-> clock,
                due |-> is_due(inbox.contact, clock)]
    /\ inbox' = NoRequest
    /\ UNCHANGED <<clock, contacts, nextId, interactions, settings, pc, local>>

\* ------------------------------------------------------------ specification
ContactIds == 1..MaxContacts

Next ==
    \/ Tick
    \/ \E data \in ContactInputs : create_contact(data)
    \/ \E id \in ContactIds, data \in ContactInputs : update_contact(id, data)
    \/ \E p \in Procs, id \in ContactIds : delete_contact_one(p, id)
    \/ \E p \in Procs : delete_contact_many(p)
    \/ \E p \in Procs, id \in ContactIds : add_interaction_find(p, id)
    \/ \E p \in Procs : add_interaction_insert(p)
    \/ \E p \in Procs : add_interaction_update(p)
    \/ \E p \in Procs : request_fails(p)

\* The write path: the contact and interaction handlers, over concurrent
\* request workers, from an empty store.
Spec == Init /\ [][Next]_vars

\* The read path.  The engine and the settings handlers serve one request
\* over a store the write path has left behind: any list of contacts
\* create_contact and update_contact can store, and any settings document
\* get_settings and update_settings can store.
StoredContacts(i) ==
    {[id |-> i] @@ data : data \in ContactInputs}
StoredContactLists ==
    UNION {{cs \in [1..n -> UNION {StoredContacts(i) : i \in 1..n}] :
                \A i \in 1..n : cs[i].id = i} : n \in 0..MaxContacts}
StoredSettings ==
    {NoDoc, DefaultSettings} \cup {[exists |-> TRUE] @@ d : d \in SettingsInputs}

SuggestionRequests ==
    {[kind |-> "suggestions", modeArg |-> m, countArg |-> c] :
        m \in ModeArgs, c \in CountArgs}
DueRequests(now) ==
    {[kind |-> "is_due", contact |-> c] : c \in DueDicts(now)}
SettingsRequests ==
    {[kind |-> "get_settings"]}
        \cup {[kind |-> "update_settings", data |-> d] : d \in SettingsInputs}

InitEngine ==
    /\ clock \in 0..MaxClock
    /\ \/ /\ inbox \in SuggestionRequests
          /\ contacts \in StoredContactLists
          /\ settings \in StoredSettings
       \/ /\ inbox \in DueRequests(clock)
          /\ contacts = <<>>
          /\ settings = NoDoc
       \/ /\ inbox \in SettingsRequests
          /\ contacts = <<>>
          /\ settings \in StoredSettings
    /\ nextId = Len(contacts) + 1
    /\ interactions = <<>>
    /\ pc = [p \in Procs |-> "idle"]
    /\ local = [p \in Procs |-> NoLocal]
    /\ resp = NoResp

NextEngine ==
    \/ get_suggestions
    \/ check_due
    \/ get_settings
    \/ update_settings

SpecEngine == InitEngine /\ [][NextEngine]_vars

\* -------------------------------------------------------------- properties
IsSuggestions == resp.kind = "suggestions"

\* The index in the snapshot (the storage order) of a returned document.
StorageIndex(doc) ==
    CHOOSE i \in 1..Len(resp.items) : resp.items[i].id = doc.id

\* The score overdue_score computed for a returned document.
ScoreOf(doc) == resp.keys[StorageIndex(doc)]

NeverContacted(doc) == doc.lastContactedAt.kind = "none"

\* Every contact of the snapshot has a frequencyDays the schema allows.
ValidFrequencies ==
    \A i \in 1..Len(resp.items) : resp.items[i].frequencyDays >= 1

\* The whole days in e ticks, from the definition of floor: the d with
\* d days <= e < d + 1 days.
WholeDays(e) ==
    CHOOSE d \in (0 - 2)..(DefaultFrequencyDays + 1) :
        d * TicksPerDay <= e /\ e < (d + 1) * TicksPerDay

AskedFrequency(c) ==
    IF "frequencyDays" \in DOMAIN c THEN c.frequencyDays ELSE DefaultFrequencyDays

\* C1: is_due is true when lastContactedAt is absent, and otherwise true
\* exactly when the whole days elapsed since lastContactedAt (the floor of
\* the elapsed time) are at least frequencyDays: true at exactly
\* frequencyDays days, false at frequencyDays - 1 days.
C1_IsDueFloorInclusive ==
    resp.kind = "is_due" =>
        LET c == resp.contact
            last == c.lastContactedAt
            elapsed == resp.now - last.t
        IN  /\ last.kind = "none" => resp.due
            /\ last.kind \in {"datetime", "isostr"} =>
                /\ resp.due <=> WholeDays(elapsed) >= AskedFrequency(c)
                /\ WholeDays(elapsed) = AskedFrequency(c) => resp.due
                /\ WholeDays(elapsed) = AskedFrequency(c) - 1 => ~resp.due

C1_Witness ==
    /\ resp.kind = "is_due"
    /\ resp.contact.lastContactedAt = Dt(resp.now - TicksPerDay)
    /\ AskedFrequency(resp.contact) = 1
    /\ resp.due

\* C2: in the output of get_suggestions a never-contacted contact comes
\* before every contact that has a lastContactedAt, whatever that
\* contact's frequencyDays and elapsed time.
C2_NeverContactedFirst ==
    IsSuggestions =>
        \A a, b \in 1..Len(resp.result) :
            (a < b /\ NeverContacted(resp.result[b])) => NeverContacted(resp.result[a])

\* C3: the output of get_suggestions is sorted by overdue score descending,
\* and contacts of equal score keep the order they were read from storage.
C3_SortedStable ==
    IsSuggestions =>
        \A a, b \in 1..Len(resp.result) :
            a < b =>
                /\ ScoreOf(resp.result[a]) >= ScoreOf(resp.result[b])
                /\ ScoreOf(resp.result[a]) = ScoreOf(resp.result[b]) =>
                       StorageIndex(resp.result[a]) < StorageIndex(resp.result[b])

C3_Witness ==
    /\ IsSuggestions
    /\ Len(resp.result) = 2
    /\ StorageIndex(resp.result[1]) = 2
    /\ ScoreOf(resp.result[1]) > ScoreOf(resp.result[2])
    /\ ~NeverContacted(resp.result[1])
    /\ ValidFrequencies

NoneDue == \A j \in 1..Len(resp.dueFlags) : ~resp.dueFlags[j]

\* The j-th element of the snapshot sorted by score.
SortedItem(j) == resp.items[resp.order[j]]

\* C4 as claimed: when no contact is due and storage is not empty the
\* result is not empty, and when storage is empty the result is empty.
C4_FallbackNonEmpty_Claimed ==
    IsSuggestions =>
        /\ (NoneDue /\ resp.items # <<>>) => resp.result # <<>>
        /\ resp.items = <<>> => resp.result = <<>>

\* C4, amended: when no contact is due, storage is not empty and the count
\* is at least 1, the result is not empty: it is the first min(count, size
\* of storage) contacts of the score-sorted list; when storage is empty
\* the result is empty.
C4_FallbackNonEmpty ==
    IsSuggestions =>
        /\ (NoneDue /\ resp.items # <<>> /\ resp.count >= 1) =>
              /\ resp.result # <<>>
              /\ Len(resp.result) = Min(resp.count, Len(resp.items))
              /\ \A k \in 1..Len(resp.result) : resp.result[k].id = SortedItem(k).id
        /\ resp.items = <<>> => resp.result = <<>>

C4_Witness ==
    /\ IsSuggestions
    /\ NoneDue
    /\ Len(resp.items) = 2
    /\ resp.count = 1
    /\ Len(resp.result) = 1
    /\ ValidFrequencies

DueCount == Cardinality({j \in 1..Len(resp.dueFlags) : resp.dueFlags[j]})
PoolSize == IF DueCount > 0 THEN DueCount ELSE Len(resp.items)

\* C5: for every count N >= 0 the number of contacts returned is at most N
\* and equals min(N, size of the pool), the pool being the due contacts if
\* any contact is due and all contacts otherwise.
C5_CountBound ==
    (IsSuggestions /\ resp.count >= 0) =>
        /\ Len(resp.result) <= resp.count
        /\ Len(resp.result) = Min(resp.count, PoolSize)

C5_Witness ==
    /\ IsSuggestions
    /\ DueCount = 2
    /\ resp.count = 1
    /\ Len(resp.result) = 1
    /\ ValidFrequencies

StoredOrDefaultSettings == IF settings.exists THEN settings ELSE DefaultSettings
EffectiveMode ==
    IF resp.modeArg.given THEN resp.modeArg.value ELSE StoredOrDefaultSettings.mode
EffectiveCount ==
    IF resp.countArg.given THEN resp.countArg.value
    ELSE IF EffectiveMode = "daily" THEN StoredOrDefaultSettings.countDaily
         ELSE StoredOrDefaultSettings.countWeekly

\* C6: without a mode or a count, get_suggestions uses the stored
\* settings.mode and settings.countDaily (daily) or settings.countWeekly
\* (otherwise); parameters that are given override the settings.
C6_SettingsFallback ==
    IsSuggestions =>
        /\ resp.mode = EffectiveMode
        /\ resp.target = EffectiveCount
        /\ EffectiveCount >= 0 => Len(resp.result) = Min(EffectiveCount, PoolSize)

\* C7: the output of get_suggestions is a prefix of the contact list sorted
\* by overdue score: every contact that precedes a returned contact in the
\* sorted list is returned too.
C7_PrefixOfSorted ==
    IsSuggestions =>
        \A k \in 1..Len(resp.result) : resp.result[k].id = SortedItem(k).id

\* C8: when add_interaction has completed for an existing contact, the
\* contact's lastContactedAt is the createdAt of the interaction created.
C8_LastContactedIsCreatedAt ==
    (resp.kind = "interaction" /\ find_one(resp.contactId)) =>
        contacts[IndexOf(resp.contactId)].lastContactedAt = Dt(resp.createdAt)

\* C9: an interaction is recorded and its contact's lastContactedAt is
\* updated as one unit: every step that adds an interaction to storage
\* leaves its contact with lastContactedAt set to that interaction's
\* createdAt.
C9_InteractionAtomic ==
    [][Len(interactions') > Len(interactions) =>
          LET x == interactions'[Len(interactions')]
          IN  \E i \in 1..Len(contacts') :
                  /\ contacts'[i].id = x.contactId
                  /\ contacts'[i].lastContactedAt = Dt(x.createdAt)]_vars

\* C10: every stored contact has frequencyDays >= 1.
C10_FrequencyPositive ==
    \A i \in 1..Len(contacts) : contacts[i].frequencyDays >= 1

====
